---- MODULE Spec2Model ----
(***************************************************************************)
(* Model of the two-stage CloudWatch reporting pipeline:                   *)
(*   lambda/data_exporter/lambda_function.py    (the exporter stage)       *)
(*   lambda/report_generator/lambda_function.py (the report stage)         *)
(*                                                                         *)
(* Conventions.                                                            *)
(*   - A Python dict is a TLA+ record; an optional key is a field that is  *)
(*     or is not in the record's DOMAIN ('error' in m  ~  HasKey(m,        *)
(*     "error")).                                                          *)
(*   - A call that may raise yields [raised |-> TRUE, error |-> e] or      *)
(*     [raised |-> FALSE, value |-> v].                                    *)
(*   - A datetime is [month, day, hour]; month indexes MonthNames, day     *)
(*     indexes DayNames.  strftime and pd.to_datetime convert between      *)
(*     datetimes and the strings built from those tables.                  *)
(*   - Raw CPU statistics are integers in thousandths of a percent;        *)
(*     round(x, 2) yields hundredths of a percent, the unit of every       *)
(*     value stored in a document.                                         *)
(***************************************************************************)
EXTENDS Integers, Sequences, FiniteSets, TLC

\* ---------------------------------------------------------------- bounds
MaxMonth == 2      \* calendar months the clock passes through
MaxDay == 2        \* days of a month a raw datapoint can fall on
MaxPoints == 2     \* raw datapoints in one metric-source response (harness)
MaxExports == 1    \* exporter invocations in one behaviour
MaxReports == 1    \* report-stage invocations in one behaviour

MonthNames == <<"2024-01", "2024-02", "2024-03", "2024-04">>
DayNames == <<"01", "02", "03", "04">>
Hours == {0, 12}

None == "None"

HasKey(d, k) == k \in DOMAIN d

\* dict.get(k, default)
Get(d, k, default) == IF HasKey(d, k) THEN d[k] ELSE default

\* Python truthiness of an optional string
Truthy(x) == x # None /\ x # ""

Raise(e) == [raised |-> TRUE, error |-> e]

Return(v) == [raised |-> FALSE, value |-> v]

\* ------------------------------------------------------------ date & time
Datetimes == [month : 1..MaxMonth, day : 1..MaxDay, hour : Hours]

\* total order of datetimes (hours since the start of the first month)
TsOrd(ts) == ((ts.month * 32) + ts.day) * 24 + ts.hour

\* datetime.strftime('%Y-%m-%d')
strftime_Ymd(ts) == MonthNames[ts.month] \o "-" \o DayNames[ts.day]

\* datetime.strftime('%Y-%m')
strftime_Ym(ts) == MonthNames[ts.month]

\* today.replace(day=1)
first_day(ts) == [ts EXCEPT !.day = 1]

\* the calendar dates a date string can parse to
ParsesTo(s) ==
    { ts \in [month : 1..Len(MonthNames), day : 1..Len(DayNames), hour : {0}] :
        strftime_Ymd(ts) = s }

\* pd.to_datetime on one date string: midnight of that date, or a raise
to_datetime(s) ==
    IF ParsesTo(s) = {} THEN Raise("ParserError")
    ELSE Return(CHOOSE ts \in ParsesTo(s) : TRUE)

\* ------------------------------------------------------------- rounding
\* round(x, 2): thousandths to hundredths, ties to the even neighbour
round2(x) ==
    LET q == x \div 10
        r == x % 10
    IN  IF r < 5 THEN q
        ELSE IF r > 5 THEN q + 1
        ELSE IF q % 2 = 0 THEN q ELSE q + 1

\* ------------------------------------------------- exporter: normalisation
RECURSIVE InsertByTimestamp(_, _)
\* stable insertion of x behind every element whose key is <= its own
InsertByTimestamp(s, x) ==
    IF s = <<>> THEN <<x>>
    ELSE IF TsOrd(x.Timestamp) < TsOrd(Head(s).Timestamp)
         THEN <<x>> \o s
         ELSE <<Head(s)>> \o InsertByTimestamp(Tail(s), x)

RECURSIVE sorted_by_Timestamp(_)
\* sorted(response['Datapoints'], key=lambda x: x['Timestamp'])
sorted_by_Timestamp(s) ==
    IF s = <<>> THEN <<>>
    ELSE InsertByTimestamp(sorted_by_Timestamp(SubSeq(s, 1, Len(s) - 1)), s[Len(s)])

\* one cpu_data entry from one raw datapoint
format_datapoint(datapoint) ==
    [timestamp |-> strftime_Ymd(datapoint.Timestamp),
     average   |-> round2(datapoint.Average),
     maximum   |-> round2(datapoint.Maximum),
     minimum   |-> round2(datapoint.Minimum)]

\* the loop that builds cpu_data from the metric source's response
build_cpu_data(Datapoints) ==
    LET s == sorted_by_Timestamp(Datapoints)
    IN  [i \in 1..Len(s) |-> format_datapoint(s[i])]

\* variant: the except branch re-raises instead of returning an error entry
fetch_cloudwatch_metrics_Reraise(instance_id, today, outcome) ==
    IF outcome.raised THEN Raise(outcome.error)
    ELSE Return([instance_id |-> instance_id,
                 cpu_data    |-> build_cpu_data(outcome.value.Datapoints),
                 month       |-> strftime_Ym(first_day(today))])

\* fetch_cloudwatch_metrics(instance_id) at wall-clock time today, given what
\* cloudwatch.get_metric_statistics did: [raised, error] or [raised, value]
\* with value = [Datapoints |-> ...].  The function catches every exception of
\* its body, so what it hands its caller is always a returned entry.
fetch_cloudwatch_metrics(instance_id, today, outcome) ==
    IF outcome.raised
    THEN Return([instance_id |-> instance_id,
                 cpu_data    |-> <<>>,
                 month       |-> strftime_Ym(today),
                 error       |-> outcome.error])
    ELSE Return([instance_id |-> instance_id,
                 cpu_data    |-> build_cpu_data(outcome.value.Datapoints),
                 month       |-> strftime_Ym(first_day(today))])

\* ---------------------------------------------------- exporter: aggregation
\* variant: the entries are never consulted
resolve_month_CurrentOnly(metrics_data, today) == strftime_Ym(today)

\* the month store_in_s3 gives the document
resolve_month(metrics_data, today) ==
    IF Len(metrics_data) > 0 /\ Truthy(Get(metrics_data[1], "month", None))
    THEN metrics_data[1].month
    ELSE strftime_Ym(today)

\* variant: the entries that carry an error are left out of the document
data_structure_DropErrors(metrics_data, today) ==
    [month            |-> resolve_month(metrics_data, today),
     export_timestamp |-> today,
     instances        |-> SelectSeq(metrics_data, LAMBDA m : ~HasKey(m, "error"))]

\* data_structure of store_in_s3
data_structure(metrics_data, today) ==
    [month            |-> resolve_month(metrics_data, today),
     export_timestamp |-> today,
     instances        |-> metrics_data]

\* s3_key of store_in_s3
export_key(current_month) == "data/" \o current_month \o "/metrics.json"

\* ------------------------------------------------ report stage: flattening
\* variant: an entry without points contributes one row of nulls
instance_rows_NullRow(instance_data) ==
    IF ~HasKey(instance_data, "instance_id") THEN Raise("KeyError")
    ELSE LET cpu_data == Get(instance_data, "cpu_data", <<>>)
         IN  IF cpu_data = <<>>
             THEN Return(<<[instance_id |-> instance_data.instance_id,
                            date |-> "2024-01-01", avg_cpu |-> 0, max_cpu |-> 0,
                            min_cpu |-> 0]>>)
             ELSE Return([i \in 1..Len(cpu_data) |->
                           [instance_id |-> instance_data.instance_id,
                            date        |-> cpu_data[i].timestamp,
                            avg_cpu     |-> cpu_data[i].average,
                            max_cpu     |-> cpu_data[i].maximum,
                            min_cpu     |-> cpu_data[i].minimum]])

\* the rows one instance entry contributes; instance_data['instance_id'] is a
\* KeyError when the key is missing
instance_rows(instance_data) ==
    IF ~HasKey(instance_data, "instance_id") THEN Raise("KeyError")
    ELSE LET cpu_data == Get(instance_data, "cpu_data", <<>>)
         IN  Return([i \in 1..Len(cpu_data) |->
                       [instance_id |-> instance_data.instance_id,
                        date        |-> cpu_data[i].timestamp,
                        avg_cpu     |-> cpu_data[i].average,
                        max_cpu     |-> cpu_data[i].maximum,
                        min_cpu     |-> cpu_data[i].minimum]])

RECURSIVE flatten_rows(_)
\* the nested loops of process_metrics_with_pandas over the instances
flatten_rows(instances) ==
    IF instances = <<>> THEN Return(<<>>)
    ELSE LET first == instance_rows(Head(instances))
         IN  IF first.raised THEN first
             ELSE LET rest == flatten_rows(Tail(instances))
                  IN  IF rest.raised THEN rest
                      ELSE Return(first.value \o rest.value)

\* df['date'] = pd.to_datetime(df['date'])
parse_dates(rows) ==
    IF \E i \in 1..Len(rows) : to_datetime(rows[i].date).raised
    THEN Raise("ParserError")
    ELSE Return([i \in 1..Len(rows) |->
                   [rows[i] EXCEPT !.date = to_datetime(rows[i].date).value]])

\* process_metrics_with_pandas(metrics_data): the DataFrame as its sequence of
\* rows, the empty DataFrame being the empty sequence
process_metrics_with_pandas(metrics_data) ==
    LET rows == flatten_rows(Get(metrics_data, "instances", <<>>))
    IN  IF rows.raised THEN rows
        ELSE IF rows.value = <<>> THEN Return(<<>>)
        ELSE parse_dates(rows.value)

\* ------------------------------------------------ report stage: statistics
RECURSIVE SumOf(_, _)
SumOf(rows, col) ==
    IF rows = <<>> THEN 0 ELSE rows[1][col] + SumOf(Tail(rows), col)

\* Series.mean() as an exact fraction of hundredths
mean(rows, col) == [num |-> SumOf(rows, col), den |-> Len(rows)]

\* Series.max()
max(rows, col) ==
    CHOOSE v \in {rows[i][col] : i \in 1..Len(rows)} :
        \A i \in 1..Len(rows) : rows[i][col] <= v

\* Series.min()
min(rows, col) ==
    CHOOSE v \in {rows[i][col] : i \in 1..Len(rows)} :
        \A i \in 1..Len(rows) : rows[i][col] >= v

RECURSIVE unique(_)
\* Series.unique(): the distinct values in order of first appearance
unique(ids) ==
    IF ids = <<>> THEN <<>>
    ELSE LET init == unique(SubSeq(ids, 1, Len(ids) - 1))
             last == ids[Len(ids)]
         IN  IF \E i \in 1..Len(init) : init[i] = last THEN init
             ELSE Append(init, last)

\* df[df['instance_id'] == instance_id]
RowsOf(df, instance_id) == SelectSeq(df, LAMBDA r : r.instance_id = instance_id)

\* --------------------------------------------- report stage: recommendations
LowMeanPct == 20
HighMeanPct == 80
SpikePeakPct == 95

MsgLow == "CPU utilization is low. Consider downsizing the instance type to reduce costs."
MsgHigh == "CPU utilization is high. Consider upgrading to a larger instance type or implementing auto-scaling."
MsgSpike == "CPU spikes detected. Monitor for performance issues and consider implementing auto-scaling."
MsgNormal == "CPU utilization appears to be within normal ranges."

\* variant: the thresholds compared non-strictly
generate_recommendations_NonStrict(avg_cpu, max_cpu) ==
    IF avg_cpu.num <= LowMeanPct * 100 * avg_cpu.den THEN MsgLow
    ELSE IF avg_cpu.num >= HighMeanPct * 100 * avg_cpu.den THEN MsgHigh
    ELSE IF max_cpu >= SpikePeakPct * 100 THEN MsgSpike
    ELSE MsgNormal

\* generate_recommendations(avg_cpu, max_cpu): avg_cpu a fraction of
\* hundredths, max_cpu in hundredths
generate_recommendations(avg_cpu, max_cpu) ==
    IF avg_cpu.num < LowMeanPct * 100 * avg_cpu.den THEN MsgLow
    ELSE IF avg_cpu.num > HighMeanPct * 100 * avg_cpu.den THEN MsgHigh
    ELSE IF max_cpu > SpikePeakPct * 100 THEN MsgSpike
    ELSE MsgNormal

\* ------------------------------------------------- report stage: rendering
\* variant: every instance is judged by the whole table's mean and peak
recommendations_Overall(df) ==
    LET ids == unique([i \in 1..Len(df) |-> df[i].instance_id])
    IN  [k \in 1..Len(ids) |->
           [instance_id    |-> ids[k],
            recommendation |-> generate_recommendations(mean(df, "avg_cpu"),
                                                        max(df, "max_cpu"))]]

\* the <li> items of the Recommendations section
recommendations(df) ==
    LET ids == unique([i \in 1..Len(df) |-> df[i].instance_id])
    IN  [k \in 1..Len(ids) |->
           [instance_id    |-> ids[k],
            recommendation |-> generate_recommendations(
                                   mean(RowsOf(df, ids[k]), "avg_cpu"),
                                   max(RowsOf(df, ids[k]), "max_cpu"))]]

\* a figure rounded to 2 decimals ({x:.2f} and DataFrame.round(2)): the
\* fraction of hundredths x to the nearest hundredth, an exact tie to the even
\* neighbour
nearest_hundredth(x) ==
    LET q == x.num \div x.den
        r == x.num % x.den
    IN  IF 2 * r < x.den THEN q
        ELSE IF 2 * r > x.den THEN q + 1
        ELSE IF q % 2 = 0 THEN q ELSE q + 1

\* Series.nunique()
nunique(ids) == Len(unique(ids))

\* the sum of a sequence of fractions
RECURSIVE SumFracs(_)
SumFracs(fs) ==
    IF fs = <<>> THEN [num |-> 0, den |-> 1]
    ELSE LET rest == SumFracs(Tail(fs))
         IN  [num |-> fs[1].num * rest.den + rest.num * fs[1].den,
              den |-> fs[1].den * rest.den]

\* variant: the overall average is the mean of the per-instance means
executive_summary_MeanOfMeans(df) ==
    LET ids   == unique([i \in 1..Len(df) |-> df[i].instance_id])
        total == SumFracs([k \in 1..Len(ids) |-> mean(RowsOf(df, ids[k]), "avg_cpu")])
        avg   == [num |-> total.num, den |-> total.den * Len(ids)]
    IN  [total_instances |-> nunique([i \in 1..Len(df) |-> df[i].instance_id]),
         avg_cpu_overall |-> avg,
         max_cpu_overall |-> max(df, "max_cpu"),
         min_cpu_overall |-> min(df, "min_cpu"),
         metrics |-> [Total_Instances     |-> Len(ids),
                      Overall_Average_CPU |-> nearest_hundredth(avg),
                      Peak_CPU_Usage      |-> max(df, "max_cpu"),
                      Minimum_CPU_Usage   |-> min(df, "min_cpu")]]

\* the Executive Summary of a non-empty df: the four statistics and the four
\* <div class="metric"> figures as displayed, in hundredths
executive_summary(df) ==
    LET total_instances == nunique([i \in 1..Len(df) |-> df[i].instance_id])
        avg_cpu_overall == mean(df, "avg_cpu")
        max_cpu_overall == max(df, "max_cpu")
        min_cpu_overall == min(df, "min_cpu")
    IN  [total_instances |-> total_instances,
         avg_cpu_overall |-> avg_cpu_overall,
         max_cpu_overall |-> max_cpu_overall,
         min_cpu_overall |-> min_cpu_overall,
         metrics |-> [Total_Instances     |-> total_instances,
                      Overall_Average_CPU |-> nearest_hundredth(avg_cpu_overall),
                      Peak_CPU_Usage      |-> nearest_hundredth([num |-> max_cpu_overall, den |-> 1]),
                      Minimum_CPU_Usage   |-> nearest_hundredth([num |-> min_cpu_overall, den |-> 1])]]

\* the instance ids that occur in the model, in ascending string order
InstanceIds ==
    <<"i-038d58c996d553eaa", "i-03b933276fbf10181", "i-0586fae46f1e7e9ea", "i-1", "i-2">>

\* the group keys of df.groupby('instance_id'): the distinct ids, sorted
group_keys(df) ==
    SelectSeq(InstanceIds, LAMBDA id : \E i \in 1..Len(df) : df[i].instance_id = id)

\* Series.std(), the sample standard deviation: NaN for a single row; of the
\* number it is otherwise the model keeps nothing
std(rows, col) == IF Len(rows) < 2 THEN "NaN" ELSE "number"

\* Series.count(): the number of non-null values; every date of a df was
\* parsed by to_datetime from a string, so none of them is null
count(rows, col) == Len([i \in 1..Len(rows) |-> rows[i][col]])

\* the rows of the Instance Summary table: groupby('instance_id').agg(...)
\* .round(2), one row per group in key order
instance_summary(df) ==
    LET keys == group_keys(df)
    IN  [k \in 1..Len(keys) |->
           LET rows == RowsOf(df, keys[k])
           IN  [instance_id |-> keys[k],
                Avg_CPU     |-> nearest_hundredth(mean(rows, "avg_cpu")),
                CPU_StdDev  |-> std(rows, "avg_cpu"),
                Max_CPU     |-> nearest_hundredth([num |-> max(rows, "max_cpu"), den |-> 1]),
                Min_CPU     |-> nearest_hundredth([num |-> min(rows, "min_cpu"), den |-> 1]),
                Data_Points |-> count(rows, "date")]]

\* variant: the summary sections are emitted without the emptiness guard
create_html_report_NoGuard(df, metrics_data) ==
    [month    |-> Get(metrics_data, "month", "Unknown Month"),
     sections |-> <<"Executive Summary", "Instance Summary",
                    "Daily CPU Utilization Details", "Recommendations">>,
     total_instances |-> Len(unique([i \in 1..Len(df) |-> df[i].instance_id])),
     details         |-> [i \in 1..Len(df) |->
                            [df[i] EXCEPT !.date = strftime_Ymd(df[i].date)]],
     recommendations |-> recommendations(df)]

\* create_html_report(df, metrics_data): the document as its heading month,
\* its <h2> sections in order and the figures they show
create_html_report(df, metrics_data) ==
    IF df # <<>>
    THEN [month    |-> Get(metrics_data, "month", "Unknown Month"),
          sections |-> <<"Executive Summary", "Instance Summary",
                         "Daily CPU Utilization Details", "Recommendations">>,
          executive_summary |-> executive_summary(df),
          instance_summary  |-> instance_summary(df),
          details         |-> [i \in 1..Len(df) |->
                                 [df[i] EXCEPT !.date = strftime_Ymd(df[i].date)]],
          recommendations |-> recommendations(df)]
    ELSE [month    |-> Get(metrics_data, "month", "Unknown Month"),
          sections |-> <<"No Data Available">>]

\* report_key of upload_report_to_s3
report_key_for(month) == "reports/" \o month \o "-report.html"

\* ======================================================= the running system
VARIABLES
    clock,             \* the calendar month of the wall clock (index of MonthNames)
    env,               \* the deployment's environment variables
    store,             \* the object store: key -> object, of bucket Bucket
    queue,             \* asynchronous invocations of the report stage in flight
    pcE,               \* exporter: position of the running invocation
    all_metrics_data,  \* exporter: lambda_handler's all_metrics_data
    s3_key,            \* exporter: lambda_handler's s3_key
    responseE,         \* exporter: what the last invocation returned
    traceE,            \* exporter: collaborator calls of the current invocation
    exports,           \* exporter: invocations started
    pcR,               \* report stage: position of the running invocation
    event,             \* report stage: the invocation's event
    metrics_data,      \* report stage: the downloaded document
    df,                \* report stage: the flattened table
    html,              \* report stage: the rendered report
    report_key,        \* report stage: the key the report was uploaded to
    responseR,         \* report stage: what the last invocation returned
    traceR,            \* report stage: collaborator calls of the current invocation
    reports,           \* report stage: invocations started
    call               \* the last direct call of a pure function (harness)

expVars == <<pcE, all_metrics_data, s3_key, responseE, traceE, exports>>
repVars == <<pcR, event, metrics_data, df, html, report_key, responseR, traceR, reports>>
vars == <<clock, env, store, queue, expVars, repVars, call>>

\* datetime.now()
now == [month |-> clock, day |-> MaxDay, hour |-> 12]

\* get_sample_instances()
sample_instances ==
    <<"i-03b933276fbf10181", "i-0586fae46f1e7e9ea", "i-038d58c996d553eaa">>

\* bucket_name of the exporter's lambda_handler
Bucket == "cloudwatch-reports-730335285545"

NoResponse == [statusCode |-> 0]

NoCall == [fn |-> "none"]

\* ------------------------------------------------------------ notifications
\* sns_client.publish as a recorded call
Publish(subject, ok) == [op |-> "sns.publish", Subject |-> subject, ok |-> ok]

\* variant: a failed publish propagates to the caller
send_process_start_notification_Propagates(sns_topic_arn, publish_ok) ==
    IF ~Truthy(sns_topic_arn) THEN [raised |-> FALSE, calls |-> <<>>]
    ELSE [raised |-> ~publish_ok,
          calls  |-> <<Publish("CloudWatch Data Export Process Started", publish_ok)>>]

\* send_process_start_notification(): what it raises to its caller and the
\* publishes it made, given the topic and whether publish succeeds
send_process_start_notification(sns_topic_arn, publish_ok) ==
    IF ~Truthy(sns_topic_arn) THEN [raised |-> FALSE, calls |-> <<>>]
    ELSE [raised |-> FALSE,
          calls  |-> <<Publish("CloudWatch Data Export Process Started", publish_ok)>>]

\* send_export_success_notification(s3_key, bucket_name, instances_count)
send_export_success_notification(sns_topic_arn, publish_ok) ==
    IF ~Truthy(sns_topic_arn) THEN [raised |-> FALSE, calls |-> <<>>]
    ELSE [raised |-> FALSE,
          calls  |-> <<Publish("CloudWatch Data Export Completed Successfully", publish_ok)>>]

\* variant: the success flag is ignored, every notification is a success one
send_notification_AlwaysSuccess(sns_topic_arn, success, publish_ok) ==
    IF ~Truthy(sns_topic_arn) THEN [raised |-> FALSE, calls |-> <<>>]
    ELSE [raised |-> FALSE,
          calls  |-> <<Publish("CloudWatch Report Generated Successfully", publish_ok)>>]

\* send_notification(bucket_name, report_key, success, error) of the report stage
send_notification(sns_topic_arn, success, publish_ok) ==
    IF ~Truthy(sns_topic_arn) THEN [raised |-> FALSE, calls |-> <<>>]
    ELSE [raised |-> FALSE,
          calls  |-> <<Publish(IF success
                               THEN "CloudWatch Report Generated Successfully"
                               ELSE "CloudWatch Report Generation Failed",
                               publish_ok)>>]

\* --------------------------------------------------------- exporter: storing
\* json.dumps of a document, as an object body
json_dumps(doc) == [json |-> TRUE, value |-> doc]

\* variant: the key is built from the wall clock's month, not the document's
store_in_s3_KeyFromClock(data, bucket_name, today, put_ok) ==
    LET doc == data_structure(data, today)
        key == export_key(strftime_Ym(today))
        put == [op |-> "s3.put_object", Bucket |-> bucket_name, Key |-> key,
                Body |-> json_dumps(doc), ContentType |-> "application/json",
                ok |-> put_ok]
    IN  IF put_ok THEN [raised |-> FALSE, value |-> key, calls |-> <<put>>]
        ELSE [raised |-> TRUE, error |-> "ClientError", calls |-> <<put>>]

\* variant: a failed put is logged and the key returned all the same
store_in_s3_Swallows(data, bucket_name, today, put_ok) ==
    LET doc == data_structure(data, today)
        key == export_key(doc.month)
        put == [op |-> "s3.put_object", Bucket |-> bucket_name, Key |-> key,
                Body |-> json_dumps(doc), ContentType |-> "application/json",
                ok |-> put_ok]
    IN  [raised |-> FALSE, value |-> key, calls |-> <<put>>]

\* store_in_s3(metrics_data, bucket_name) at wall-clock time today: the put it
\* issues and what it returns or raises, given whether s3.put_object succeeds
store_in_s3(data, bucket_name, today, put_ok) ==
    LET doc == data_structure(data, today)
        key == export_key(doc.month)
        put == [op |-> "s3.put_object", Bucket |-> bucket_name, Key |-> key,
                Body |-> json_dumps(doc), ContentType |-> "application/json",
                ok |-> put_ok]
    IN  IF put_ok THEN [raised |-> FALSE, value |-> key, calls |-> <<put>>]
        ELSE [raised |-> TRUE, error |-> "ClientError", calls |-> <<put>>]

\* variant: a failed lambda_client.invoke propagates to the caller
invoke_report_generator_Propagates(key, bucket_name, invoke_ok) ==
    LET payload == [bucket_name |-> bucket_name, s3_key |-> key,
                    source |-> "data_exporter"]
        invoke  == [op |-> "lambda.invoke", InvocationType |-> "Event",
                    Payload |-> payload, ok |-> invoke_ok]
    IN  [raised |-> ~invoke_ok,
         value  |-> IF invoke_ok
                    THEN [invocation_status |-> "success", status_code |-> 202]
                    ELSE [invocation_status |-> "failed", error |-> "ClientError"],
         calls  |-> <<invoke>>]

\* invoke_report_generator(s3_key, bucket_name, function_name): the invoke it
\* issues and the dict it returns, given whether lambda_client.invoke succeeds;
\* its except branch returns, so nothing is raised to the caller
invoke_report_generator(key, bucket_name, invoke_ok) ==
    LET payload == [bucket_name |-> bucket_name, s3_key |-> key,
                    source |-> "data_exporter"]
        invoke  == [op |-> "lambda.invoke", InvocationType |-> "Event",
                    Payload |-> payload, ok |-> invoke_ok]
    IN  [raised |-> FALSE,
         value  |-> IF invoke_ok
                    THEN [invocation_status |-> "success", status_code |-> 202]
                    ELSE [invocation_status |-> "failed", error |-> "ClientError"],
         calls  |-> <<invoke>>]

\* the objects a sequence of recorded calls leaves in the store
RECURSIVE ApplyPuts(_, _)
ApplyPuts(st, calls) ==
    IF calls = <<>> THEN st
    ELSE LET c == Head(calls)
             st1 == IF c.op = "s3.put_object" /\ c.ok /\ c.Bucket = Bucket
                    THEN [k \in DOMAIN st \cup {c.Key} |->
                            IF k = c.Key
                            THEN [Body |-> c.Body, ContentType |-> c.ContentType]
                            ELSE st[k]]
                    ELSE st
         IN  ApplyPuts(st1, Tail(calls))

\* the metric source's possible answers to one get_metric_statistics call
Point(d, h, a, mx, mn) ==
    [Timestamp |-> [month |-> clock, day |-> d, hour |-> h],
     Average |-> a, Maximum |-> mx, Minimum |-> mn]

\* what get_metric_statistics can do for an instance: fail, or answer with the
\* datapoints the instance has (unordered; none for the second instance)
Datapoints(instance_id) ==
    IF instance_id = sample_instances[1]
    THEN <<Point(2, 0, 85004, 97006, 60000), Point(1, 0, 10005, 15000, 5001)>>
    ELSE IF instance_id = sample_instances[2] THEN <<>>
    ELSE <<Point(1, 12, 50000, 96000, 20000)>>

MetricOutcomes(instance_id) ==
    {Raise("ClientError"), Return([Datapoints |-> Datapoints(instance_id)])}

\* the except branch of the exporter's lambda_handler
E_Failed ==
    /\ pcE' = "done"
    /\ responseE' = [statusCode |-> 500, body |-> [error |-> "Internal server error"]]

\* the exporter is invoked (schedule or direct)
E_Invoke ==
    /\ pcE \in {"idle", "done"}
    /\ exports < MaxExports
    /\ exports' = exports + 1
    /\ pcE' = "start_notification"
    /\ all_metrics_data' = <<>>
    /\ s3_key' = None
    /\ responseE' = NoResponse
    /\ traceE' = <<>>
    /\ UNCHANGED <<clock, env, store, queue, repVars, call>>

\* lambda_handler: send_process_start_notification()
E_ProcessStart ==
    /\ pcE = "start_notification"
    /\ \E publish_ok \in BOOLEAN :
         LET r == send_process_start_notification(env.SNS_TOPIC_ARN, publish_ok)
         IN  /\ traceE' = traceE \o r.calls
             /\ IF r.raised THEN E_Failed
                ELSE pcE' = "fetch" /\ UNCHANGED responseE
    /\ UNCHANGED <<clock, env, store, queue, all_metrics_data, s3_key, exports,
                   repVars, call>>

\* lambda_handler: one turn of the loop over instance_ids
E_Fetch ==
    /\ pcE = "fetch"
    /\ \E outcome \in MetricOutcomes(sample_instances[Len(all_metrics_data) + 1]) :
         LET instance_id == sample_instances[Len(all_metrics_data) + 1]
             r == fetch_cloudwatch_metrics(instance_id, now, outcome)
         IN  /\ traceE' = Append(traceE, [op |-> "cloudwatch.get_metric_statistics",
                                          InstanceId |-> instance_id,
                                          ok |-> ~outcome.raised])
             /\ IF r.raised THEN E_Failed /\ UNCHANGED all_metrics_data
                ELSE /\ all_metrics_data' = Append(all_metrics_data, r.value)
                     /\ pcE' = IF Len(all_metrics_data') = Len(sample_instances)
                               THEN "store" ELSE "fetch"
                     /\ UNCHANGED responseE
    /\ UNCHANGED <<clock, env, store, queue, s3_key, exports, repVars, call>>

\* lambda_handler: s3_key = store_in_s3(all_metrics_data, bucket_name)
E_Store ==
    /\ pcE = "store"
    /\ \E put_ok \in BOOLEAN :
         LET r == store_in_s3(all_metrics_data, Bucket, now, put_ok)
         IN  /\ traceE' = traceE \o r.calls
             /\ store' = ApplyPuts(store, r.calls)
             /\ IF r.raised THEN E_Failed /\ UNCHANGED s3_key
                ELSE /\ s3_key' = r.value
                     /\ pcE' = "success_notification"
                     /\ UNCHANGED responseE
    /\ UNCHANGED <<clock, env, queue, all_metrics_data, exports, repVars, call>>

\* lambda_handler: send_export_success_notification(...)
E_ExportSuccess ==
    /\ pcE = "success_notification"
    /\ \E publish_ok \in BOOLEAN :
         LET r == send_export_success_notification(env.SNS_TOPIC_ARN, publish_ok)
         IN  /\ traceE' = traceE \o r.calls
             /\ IF r.raised THEN E_Failed
                ELSE pcE' = "invoke" /\ UNCHANGED responseE
    /\ UNCHANGED <<clock, env, store, queue, all_metrics_data, s3_key, exports,
                   repVars, call>>

\* lambda_handler: invoke_report_generator(...) and the 200 response
E_InvokeReport ==
    /\ pcE = "invoke"
    /\ \E invoke_ok \in BOOLEAN :
         LET r == invoke_report_generator(s3_key, Bucket, invoke_ok)
         IN  /\ traceE' = traceE \o r.calls
             /\ queue' = IF invoke_ok THEN Append(queue, r.calls[1].Payload) ELSE queue
             /\ IF r.raised THEN E_Failed
                ELSE /\ pcE' = "done"
                     /\ responseE' =
                          [statusCode |-> 200,
                           body |-> [s3_key |-> s3_key, bucket_name |-> Bucket,
                                     instances_processed |-> Len(all_metrics_data),
                                     report_generator_invocation |-> r.value]]
    /\ UNCHANGED <<clock, env, store, all_metrics_data, s3_key, exports, repVars, call>>

\* -------------------------------------------------------------- report stage
EmptyDict == [k \in {} |-> None]

\* objects found in the bucket that the exporter did not write
ForeignDoc(name) ==
    CASE name = "data/manual/garbage.json" -> [json |-> FALSE]
      [] name = "data/manual/no-month.json" ->
           json_dumps([instances |-> <<[instance_id |-> "i-1",
                                        cpu_data |-> <<[timestamp |-> "2024-01-01",
                                                        average |-> 1000,
                                                        maximum |-> 1500,
                                                        minimum |-> 500]>>]>>])
      [] name = "data/manual/bad-date.json" ->
           json_dumps([month |-> "2024-01",
                       instances |-> <<[instance_id |-> "i-1",
                                        cpu_data |-> <<[timestamp |-> "first of May",
                                                        average |-> 1000,
                                                        maximum |-> 1500,
                                                        minimum |-> 500]>>]>>])
      [] name = "data/manual/no-instances.json" -> json_dumps([month |-> "2024-01"])
      [] name = "data/manual/no-id.json" ->
           json_dumps([month |-> "2024-01", instances |-> <<[cpu_data |-> <<>>]>>])

ForeignKeys ==
    {"data/manual/garbage.json", "data/manual/no-month.json",
     "data/manual/bad-date.json", "data/manual/no-instances.json",
     "data/manual/no-id.json"}

PreExisting ==
    [k \in ForeignKeys |-> [Body |-> ForeignDoc(k), ContentType |-> "application/json"]]

ExportKeys == {export_key(MonthNames[m]) : m \in 1..MaxMonth}

\* the events the report stage is invoked with directly
DirectEvents ==
    {EmptyDict, [bucket_name |-> Bucket], [s3_key |-> "data/manual/no-instances.json"],
     [bucket_name |-> "other-bucket", s3_key |-> "data/manual/no-instances.json"],
     [bucket_name |-> Bucket, s3_key |-> "data/absent.json"]}
    \cup {[bucket_name |-> Bucket, s3_key |-> k] : k \in ForeignKeys \cup ExportKeys}

\* variant: a missing bucket name falls back to the exporter's bucket
bucket_name_DefaultBucket ==
    IF Truthy(Get(event, "bucket_name", None)) THEN event.bucket_name
    ELSE IF Truthy(env.S3_BUCKET_NAME) THEN env.S3_BUCKET_NAME ELSE Bucket

\* lambda_handler: bucket_name
bucket_name == IF Truthy(Get(event, "bucket_name", None))
               THEN event.bucket_name ELSE env.S3_BUCKET_NAME

\* lambda_handler: data_key
data_key == Get(event, "s3_key", None)

\* json.loads of an object body
json_loads(body) == IF body.json THEN Return(body.value) ELSE Raise("JSONDecodeError")

\* download_metrics_data(bucket_name, data_key) against store st, given whether
\* the object store answers
download_metrics_data(bucket, key, st, get_ok) ==
    LET found == get_ok /\ bucket = Bucket /\ key \in DOMAIN st
        get   == [op |-> "s3.get_object", Bucket |-> bucket, Key |-> key, ok |-> found]
    IN  IF ~found THEN [raised |-> TRUE, error |-> "ClientError", calls |-> <<get>>]
        ELSE LET data == json_loads(st[key].Body)
             IN  IF data.raised
                 THEN [raised |-> TRUE, error |-> data.error, calls |-> <<get>>]
                 ELSE [raised |-> FALSE, value |-> data.value, calls |-> <<get>>]

\* upload_report_to_s3(bucket_name, html_path, month), given whether
\* s3_client.put_object succeeds
upload_report_to_s3(bucket, report, month, put_ok) ==
    LET key == report_key_for(month)
        put == [op |-> "s3.put_object", Bucket |-> bucket, Key |-> key,
                Body |-> [json |-> FALSE, html |-> report],
                ContentType |-> "text/html", ok |-> put_ok]
    IN  IF put_ok THEN [raised |-> FALSE, value |-> key, calls |-> <<put>>]
        ELSE [raised |-> TRUE, error |-> "ClientError", calls |-> <<put>>]

\* an exception reaches the except branch of the report stage's lambda_handler
R_Raise == pcR' = "except"

R_Begin(ev) ==
    /\ pcR \in {"idle", "done"}
    /\ reports < MaxReports
    /\ reports' = reports + 1
    /\ event' = ev
    /\ pcR' = "params"
    /\ metrics_data' = EmptyDict
    /\ df' = <<>>
    /\ html' = EmptyDict
    /\ report_key' = None
    /\ responseR' = NoResponse
    /\ traceR' = <<>>

\* the platform delivers an asynchronous invocation made by the exporter
R_InvokeAsync ==
    /\ queue # <<>>
    /\ R_Begin(Head(queue))
    /\ queue' = Tail(queue)
    /\ UNCHANGED <<clock, env, store, expVars, call>>

\* the report stage is invoked directly
R_InvokeDirect ==
    /\ \E ev \in DirectEvents : R_Begin(ev)
    /\ UNCHANGED <<clock, env, store, queue, expVars, call>>

\* lambda_handler: the check of bucket_name and data_key
R_Params ==
    /\ pcR = "params"
    /\ IF ~Truthy(bucket_name) \/ ~Truthy(data_key) THEN R_Raise ELSE pcR' = "download"
    /\ UNCHANGED <<clock, env, store, queue, expVars, call, event, metrics_data, df,
                   html, report_key, responseR, traceR, reports>>

\* generate_pandas_report: download_metrics_data(bucket_name, data_key)
R_Download ==
    /\ pcR = "download"
    /\ \E get_ok \in BOOLEAN :
         LET r == download_metrics_data(bucket_name, data_key, store, get_ok)
         IN  /\ traceR' = traceR \o r.calls
             /\ IF r.raised THEN R_Raise /\ UNCHANGED metrics_data
                ELSE pcR' = "process" /\ metrics_data' = r.value
    /\ UNCHANGED <<clock, env, store, queue, expVars, call, event, df, html,
                   report_key, responseR, reports>>

\* generate_pandas_report: process_metrics_with_pandas(metrics_data)
R_Process ==
    /\ pcR = "process"
    /\ LET r == process_metrics_with_pandas(metrics_data)
       IN  IF r.raised THEN R_Raise /\ UNCHANGED df
           ELSE pcR' = "render" /\ df' = r.value
    /\ UNCHANGED <<clock, env, store, queue, expVars, call, event, metrics_data, html,
                   report_key, responseR, traceR, reports>>

\* generate_pandas_report: create_html_report(df, metrics_data)
R_Render ==
    /\ pcR = "render"
    /\ html' = create_html_report(df, metrics_data)
    /\ pcR' = "upload"
    /\ UNCHANGED <<clock, env, store, queue, expVars, call, event, metrics_data, df,
                   report_key, responseR, traceR, reports>>

\* variant: the upload takes the month with the renderer's placeholder default
R_Upload_Placeholder ==
    /\ pcR = "upload"
    /\ \E put_ok \in BOOLEAN :
         LET r == upload_report_to_s3(bucket_name, html,
                                      Get(metrics_data, "month", "Unknown Month"), put_ok)
         IN  /\ traceR' = traceR \o r.calls
             /\ store' = ApplyPuts(store, r.calls)
             /\ IF r.raised THEN R_Raise /\ UNCHANGED report_key
                ELSE pcR' = "notify" /\ report_key' = r.value
    /\ UNCHANGED <<clock, env, queue, expVars, call, event, metrics_data, df, html,
                   responseR, reports>>

\* generate_pandas_report: upload_report_to_s3(bucket_name, html_path,
\* metrics_data['month'])
R_Upload ==
    /\ pcR = "upload"
    /\ IF ~HasKey(metrics_data, "month")
       THEN R_Raise /\ UNCHANGED <<store, report_key, traceR>>
       ELSE \E put_ok \in BOOLEAN :
              LET r == upload_report_to_s3(bucket_name, html, metrics_data.month, put_ok)
              IN  /\ traceR' = traceR \o r.calls
                  /\ store' = ApplyPuts(store, r.calls)
                  /\ IF r.raised THEN R_Raise /\ UNCHANGED report_key
                     ELSE pcR' = "notify" /\ report_key' = r.value
    /\ UNCHANGED <<clock, env, queue, expVars, call, event, metrics_data, df, html,
                   responseR, reports>>

\* lambda_handler: send_notification(bucket_name, report_key, success=True) and
\* the 200 response
R_NotifySuccess ==
    /\ pcR = "notify"
    /\ \E publish_ok \in BOOLEAN :
         LET r == send_notification(env.SNS_TOPIC_ARN, TRUE, publish_ok)
         IN  /\ traceR' = traceR \o r.calls
             /\ IF r.raised THEN R_Raise /\ UNCHANGED responseR
                ELSE /\ pcR' = "done"
                     /\ responseR' = [statusCode |-> 200,
                                      body |-> [message |-> "Report generated successfully",
                                                report_key |-> report_key]]
    /\ UNCHANGED <<clock, env, store, queue, expVars, call, event, metrics_data, df,
                   html, report_key, reports>>

\* lambda_handler: the except branch, send_notification(None, None,
\* success=False, error) and the 500 response
R_Except ==
    /\ pcR = "except"
    /\ \E publish_ok \in BOOLEAN :
         LET r == send_notification(env.SNS_TOPIC_ARN, FALSE, publish_ok)
         IN  /\ traceR' = traceR \o r.calls
             /\ IF r.raised
                THEN /\ pcR' = "crashed"
                     /\ responseR' = [statusCode |-> -1]
                ELSE /\ pcR' = "done"
                     /\ responseR' = [statusCode |-> 500,
                                      body |-> [message |-> "Report generation failed"]]
    /\ UNCHANGED <<clock, env, store, queue, expVars, call, event, metrics_data, df,
                   html, report_key, reports>>

\* the calendar month turns
Tick ==
    /\ clock < MaxMonth
    /\ clock' = clock + 1
    /\ UNCHANGED <<env, store, queue, expVars, repVars, call>>

Envs ==
    [SNS_TOPIC_ARN  : {None, "arn:aws:sns:topic"},
     S3_BUCKET_NAME : {None, Bucket}]

Init ==
    /\ clock = 1
    /\ env \in Envs
    /\ store = PreExisting
    /\ queue = <<>>
    /\ pcE = "idle"
    /\ all_metrics_data = <<>>
    /\ s3_key = None
    /\ responseE = NoResponse
    /\ traceE = <<>>
    /\ exports = 0
    /\ pcR = "idle"
    /\ event = EmptyDict
    /\ metrics_data = EmptyDict
    /\ df = <<>>
    /\ html = EmptyDict
    /\ report_key = None
    /\ responseR = NoResponse
    /\ traceR = <<>>
    /\ reports = 0
    /\ call = NoCall

Next ==
    \/ E_Invoke
    \/ E_ProcessStart
    \/ E_Fetch
    \/ E_Store
    \/ E_ExportSuccess
    \/ E_InvokeReport
    \/ R_InvokeAsync
    \/ R_InvokeDirect
    \/ R_Params
    \/ R_Download
    \/ R_Process
    \/ R_Render
    \/ R_Upload
    \/ R_NotifySuccess
    \/ R_Except
    \/ Tick

Spec == Init /\ [][Next]_vars

\* ================================================ direct calls of functions
\* The pure functions of both stages, applied to inputs drawn from bounded
\* sets; the running system stays in its initial state.
MaxEntries == 2    \* instance entries in one metrics_data / document (harness)

RECURSIVE SeqsUpTo(_, _)
\* the sequences over S of length at most n
SeqsUpTo(S, n) ==
    IF n = 0 THEN {<<>>}
    ELSE LET shorter == SeqsUpTo(S, n - 1)
         IN  shorter \cup {Append(q, x) : q \in shorter, x \in S}

\* means around the thresholds, as fractions of hundredths
RecMeans ==
    {[num |-> n, den |-> 1] : n \in {1000, 1999, 2000, 2001, 5000, 7999, 8000, 8001, 8500}}
    \cup {[num |-> n, den |-> 2] : n \in {3999, 4000, 4001, 15999, 16000, 16001}}

RecPeaks == {1500, 9499, 9500, 9501, 9700}

Call_generate_recommendations ==
    /\ call = NoCall
    /\ \E avg_cpu \in RecMeans, max_cpu \in RecPeaks :
         call' = [fn |-> "generate_recommendations",
                  avg_cpu |-> avg_cpu, max_cpu |-> max_cpu,
                  result |-> generate_recommendations(avg_cpu, max_cpu)]
    /\ UNCHANGED <<clock, env, store, queue, expVars, repVars>>

\* raw datapoints of the first month: any day and hour, a few averages whose
\* third decimal is below, at and above one half
RawPoints ==
    {[Timestamp |-> ts, Average |-> a, Maximum |-> a + 1006, Minimum |-> a - 1004] :
        ts \in {t \in Datetimes : t.month = 1}, a \in {10004, 10005, 10016}}

RawOutcomes ==
    {Raise("ClientError")}
    \cup {Return([Datapoints |-> dps]) : dps \in SeqsUpTo(RawPoints, MaxPoints)}

Call_fetch_cloudwatch_metrics ==
    /\ call = NoCall
    /\ \E outcome \in RawOutcomes :
         call' = [fn |-> "fetch_cloudwatch_metrics",
                  instance_id |-> sample_instances[1], today |-> now,
                  outcome |-> outcome,
                  result |-> fetch_cloudwatch_metrics(sample_instances[1], now, outcome)]
    /\ UNCHANGED <<clock, env, store, queue, expVars, repVars>>

\* InstanceMetrics whose month is missing, empty or set
MonthEntries ==
    {[instance_id |-> "i-1", cpu_data |-> <<>>]}
    \cup {[instance_id |-> "i-1", cpu_data |-> <<>>, month |-> m] :
            m \in {""} \cup {MonthNames[i] : i \in 1..MaxMonth}}

Call_store_in_s3 ==
    /\ call = NoCall
    /\ \E data \in SeqsUpTo(MonthEntries, MaxEntries), m \in 1..MaxMonth,
          put_ok \in BOOLEAN :
         LET today == [month |-> m, day |-> MaxDay, hour |-> 12]
         IN  call' = [fn |-> "store_in_s3", metrics_data |-> data, today |-> today,
                      result |-> store_in_s3(data, Bucket, today, put_ok)]
    /\ UNCHANGED <<clock, env, store, queue, expVars, repVars>>

\* cpu_data sequences and the instance entries of a document
CpuDatas ==
    {<<>>,
     <<[timestamp |-> "2024-01-01", average |-> 1000, maximum |-> 1500, minimum |-> 500]>>,
     <<[timestamp |-> "2024-01-01", average |-> 8500, maximum |-> 9700, minimum |-> 6000],
       [timestamp |-> "2024-01-02", average |-> 8600, maximum |-> 9800, minimum |-> 6100]>>}

DocEntries ==
    {[instance_id |-> id, cpu_data |-> c, month |-> "2024-01"] :
        id \in {"i-1", "i-2"}, c \in CpuDatas}
    \cup {[instance_id |-> id, cpu_data |-> <<>>, month |-> "2024-01",
           error |-> "ClientError"] : id \in {"i-1", "i-2"}}

Call_process_metrics_with_pandas ==
    /\ call = NoCall
    /\ \E instances \in SeqsUpTo(DocEntries, MaxEntries) :
         LET doc == [month |-> "2024-01", export_timestamp |-> now,
                     instances |-> instances]
         IN  call' = [fn |-> "process_metrics_with_pandas", metrics_data |-> doc,
                      result |-> process_metrics_with_pandas(doc)]
    /\ UNCHANGED <<clock, env, store, queue, expVars, repVars>>

\* documents with and without the month field, over the same instance entries
Documents ==
    {[month |-> "2024-01", instances |-> instances] :
        instances \in SeqsUpTo(DocEntries, MaxEntries)}
    \cup {[instances |-> instances] : instances \in SeqsUpTo(DocEntries, MaxEntries)}

\* generate_pandas_report's df and html_path for a downloaded document
Call_create_html_report ==
    /\ call = NoCall
    /\ \E doc \in Documents :
         LET table == process_metrics_with_pandas(doc).value
         IN  call' = [fn |-> "create_html_report", metrics_data |-> doc, df |-> table,
                      result |-> create_html_report(table, doc)]
    /\ UNCHANGED <<clock, env, store, queue, expVars, repVars>>

NextPure ==
    \/ Call_generate_recommendations
    \/ Call_fetch_cloudwatch_metrics
    \/ Call_store_in_s3
    \/ Call_process_metrics_with_pandas
    \/ Call_create_html_report

SpecPure == Init /\ [][NextPure]_vars

\* ================================================================== claims
\* the recorded calls of one kind
CallsOf(trace, op) == SelectSeq(trace, LAMBDA c : c.op = op)

E_Running == pcE \in {"start_notification", "fetch", "store", "success_notification", "invoke"}

E_Ended == exports > 0 /\ ~E_Running

R_Running == pcR \in {"params", "download", "process", "render", "upload", "notify", "except"}

R_Ended == reports > 0 /\ ~R_Running

\* C1: every exporter invocation that has ended returned statusCode 200 or
\* 500; it returned 200 whenever its object-store put succeeded, whichever
\* metric fetches failed, so a 500 is only ever the answer to a failed put.
C1_ExporterOutcomes ==
    E_Ended =>
      /\ responseE.statusCode \in {200, 500}
      /\ (\E i \in 1..Len(traceE) : traceE[i].op = "s3.put_object" /\ traceE[i].ok)
           => responseE.statusCode = 200
      /\ responseE.statusCode = 500
           => \E i \in 1..Len(traceE) : traceE[i].op = "s3.put_object" /\ ~traceE[i].ok

\* C1 witness: an invocation in which every metric fetch failed returned 200
C1_Witness ==
    /\ pcE = "done"
    /\ responseE.statusCode = 200
    /\ Len(CallsOf(traceE, "cloudwatch.get_metric_statistics")) = Len(sample_instances)
    /\ \A i \in 1..Len(traceE) :
         traceE[i].op = "cloudwatch.get_metric_statistics" => ~traceE[i].ok

\* the instances of a document are the monitored instances in processing
\* order, an entry has an error exactly if its fetch failed, and an entry with
\* an error has no points
InstancesMirror(instances, fetches) ==
    /\ Len(instances) = Len(sample_instances)
    /\ Len(fetches) = Len(sample_instances)
    /\ \A j \in 1..Len(instances) :
         /\ instances[j].instance_id = sample_instances[j]
         /\ fetches[j].InstanceId = sample_instances[j]
         /\ HasKey(instances[j], "error") <=> ~fetches[j].ok
         /\ HasKey(instances[j], "error") => instances[j].cpu_data = <<>>

\* C2: a failed metric fetch never stops the batch: once the loop is over
\* all_metrics_data has one entry per monitored instance, and every document
\* the exporter puts holds one entry per monitored instance in processing
\* order, where each entry with an error field has an empty cpu_data.
C2_BatchNeverStops ==
    /\ pcE \in {"store", "success_notification", "invoke", "done"}
         => Len(all_metrics_data) = Len(sample_instances)
    /\ \A i \in 1..Len(traceE) :
         traceE[i].op = "s3.put_object"
           => InstancesMirror(traceE[i].Body.value.instances,
                              CallsOf(traceE, "cloudwatch.get_metric_statistics"))
    /\ \A k \in DOMAIN store \cap ExportKeys :
         LET instances == store[k].Body.value.instances
         IN  /\ Len(instances) = Len(sample_instances)
             /\ \A j \in 1..Len(instances) :
                  /\ instances[j].instance_id = sample_instances[j]
                  /\ HasKey(instances[j], "error") => instances[j].cpu_data = <<>>

\* C2 witness: a stored document with points for the first instance, no points
\* and no error for the second, and an error for the third
C2_Witness ==
    \E k \in DOMAIN store \cap ExportKeys :
      LET instances == store[k].Body.value.instances
      IN  /\ Len(instances) = Len(sample_instances)
          /\ ~HasKey(instances[1], "error") /\ instances[1].cpu_data # <<>>
          /\ ~HasKey(instances[2], "error") /\ instances[2].cpu_data = <<>>
          /\ HasKey(instances[3], "error")

\* what the report stage's inputs decide, notifications aside
R_PutOk == \E i \in 1..Len(traceR) : traceR[i].op = "s3.put_object" /\ traceR[i].ok

E_PutOk == \E i \in 1..Len(traceE) : traceE[i].op = "s3.put_object" /\ traceE[i].ok

\* C4: a notification never changes an invocation's outcome.  Whatever the
\* publishes did (succeeded, raised, or were skipped for want of a topic), an
\* ended exporter invocation fetched every instance, issued exactly one put and
\* returned 200 exactly if that put succeeded, triggering the report stage
\* exactly then; an ended report invocation returned a response, 200 exactly
\* if its report put succeeded, and issued at most one put.
C4_NotificationsNeverDecide ==
    /\ E_Ended =>
         /\ Len(CallsOf(traceE, "cloudwatch.get_metric_statistics")) = Len(sample_instances)
         /\ Len(CallsOf(traceE, "s3.put_object")) = 1
         /\ responseE.statusCode = IF E_PutOk THEN 200 ELSE 500
         /\ Len(CallsOf(traceE, "lambda.invoke")) = IF E_PutOk THEN 1 ELSE 0
    /\ R_Ended =>
         /\ pcR = "done"
         /\ responseR.statusCode = IF R_PutOk THEN 200 ELSE 500
         /\ Len(CallsOf(traceR, "s3.put_object")) <= 1

\* C4 witness: an exporter invocation whose two publishes both raised
\* returned 200
C4_Witness ==
    /\ pcE = "done"
    /\ responseE.statusCode = 200
    /\ Len(CallsOf(traceE, "sns.publish")) = 2
    /\ \A i \in 1..Len(traceE) : traceE[i].op = "sns.publish" => ~traceE[i].ok

\* C3: generate_recommendations applies four ordered rules with strict
\* comparisons, first match wins: mean < 20 low; else mean > 80 high; else
\* peak > 95 spike; else normal.  So a mean of exactly 20 or exactly 80, and a
\* peak of exactly 95 with the mean in [20, 80], give the normal message, and a
\* mean above 80 gives the high message whatever the peak.
C3_RecommendationRules ==
    call.fn = "generate_recommendations" =>
      LET n == call.avg_cpu.num
          d == call.avg_cpu.den
          p == call.max_cpu
      IN  /\ n < 2000 * d => call.result = MsgLow
          /\ n > 8000 * d => call.result = MsgHigh
          /\ (n >= 2000 * d /\ n <= 8000 * d /\ p > 9500) => call.result = MsgSpike
          /\ (n >= 2000 * d /\ n <= 8000 * d /\ p <= 9500) => call.result = MsgNormal
          /\ ((n = 2000 * d \/ n = 8000 * d) /\ p <= 9500) => call.result = MsgNormal

\* C3 witness: mean 85, peak 97 gave the high-utilization message
C3_Witness ==
    /\ call.fn = "generate_recommendations"
    /\ call.avg_cpu = [num |-> 8500, den |-> 1]
    /\ call.max_cpu = 9700
    /\ call.result = MsgHigh

\* the months of the entries that carry a non-empty month, in sequence order
RECURSIVE NonEmptyMonths(_)
NonEmptyMonths(data) ==
    IF data = <<>> THEN <<>>
    ELSE IF Truthy(Get(Head(data), "month", None))
         THEN <<Head(data).month>> \o NonEmptyMonths(Tail(data))
         ELSE NonEmptyMonths(Tail(data))

DateOrd(s) == TsOrd(to_datetime(s).value)

\* C7: for every non-empty raw datapoint collection the cpu_data of
\* fetch_cloudwatch_metrics has one point per raw datapoint, each value
\* rounded to 2 decimals, in strictly ascending date order: sorted, and no two
\* points with the same calendar date.
C7_SortedNoDuplicateDates ==
    (call.fn = "fetch_cloudwatch_metrics" /\ ~call.outcome.raised
       /\ call.outcome.value.Datapoints # <<>>) =>
      LET raw == call.outcome.value.Datapoints
          cpu == call.result.value.cpu_data
      IN  /\ ~HasKey(call.result.value, "error")
          /\ Len(cpu) = Len(raw)
          /\ \A i \in 1..Len(cpu) :
               \E j \in 1..Len(raw) :
                 /\ cpu[i].timestamp = strftime_Ymd(raw[j].Timestamp)
                 /\ cpu[i].average = round2(raw[j].Average)
                 /\ cpu[i].maximum = round2(raw[j].Maximum)
                 /\ cpu[i].minimum = round2(raw[j].Minimum)
          /\ \A i, j \in 1..Len(cpu) :
               i < j => DateOrd(cpu[i].timestamp) < DateOrd(cpu[j].timestamp)

\* the number of points of the entries before entry i
RECURSIVE PointsBefore(_, _)
PointsBefore(instances, i) ==
    IF i <= 1 THEN 0
    ELSE PointsBefore(instances, i - 1) + Len(instances[i - 1].cpu_data)

\* C9: flattening a document yields exactly one row per (instance, point)
\* pair, in document order, so as many rows as the cpu_data lengths sum to; an
\* instance whose entries have no points (with or without error) has no row.
C9_OneRowPerPoint ==
    call.fn = "process_metrics_with_pandas" =>
      LET instances == call.metrics_data.instances
      IN  /\ ~call.result.raised
          /\ Len(call.result.value) = PointsBefore(instances, Len(instances) + 1)
          /\ \A i \in 1..Len(instances) :
               \A j \in 1..Len(instances[i].cpu_data) :
                 LET row   == call.result.value[PointsBefore(instances, i) + j]
                     point == instances[i].cpu_data[j]
                 IN  /\ row.instance_id = instances[i].instance_id
                     /\ strftime_Ymd(row.date) = point.timestamp
                     /\ row.date.hour = 0
                     /\ row.avg_cpu = point.average
                     /\ row.max_cpu = point.maximum
                     /\ row.min_cpu = point.minimum
          /\ \A k \in 1..Len(call.result.value) :
               \E i \in 1..Len(instances) :
                 /\ instances[i].instance_id = call.result.value[k].instance_id
                 /\ instances[i].cpu_data # <<>>

\* C9 witness: a document whose first instance has an error and no points and
\* whose second has two points flattened to two rows of the second
C9_Witness ==
    /\ call.fn = "process_metrics_with_pandas"
    /\ Len(call.metrics_data.instances) = 2
    /\ HasKey(call.metrics_data.instances[1], "error")
    /\ call.metrics_data.instances[1].instance_id = "i-1"
    /\ call.metrics_data.instances[2].instance_id = "i-2"
    /\ Len(call.metrics_data.instances[2].cpu_data) = 2
    /\ ~call.result.raised
    /\ Len(call.result.value) = 2
    /\ \A k \in 1..2 : call.result.value[k].instance_id = "i-2"

\* the batch-level failures of a report-stage invocation, read off its event,
\* the environment and the answers of the object store
BucketMissing ==
    ~Truthy(Get(event, "bucket_name", None)) /\ ~Truthy(env.S3_BUCKET_NAME)

KeyMissing == ~Truthy(Get(event, "s3_key", None))

R_GetOk == \E i \in 1..Len(traceR) : traceR[i].op = "s3.get_object" /\ traceR[i].ok

R_GetFailed == \E i \in 1..Len(traceR) : traceR[i].op = "s3.get_object" /\ ~traceR[i].ok

R_PutFailed == \E i \in 1..Len(traceR) : traceR[i].op = "s3.put_object" /\ ~traceR[i].ok

BadJson == R_GetOk /\ ~store[event.s3_key].Body.json

BadDate ==
    /\ R_GetOk
    /\ store[event.s3_key].Body.json
    /\ \E i \in 1..Len(Get(metrics_data, "instances", <<>>)) :
         LET cpu_data == Get(metrics_data.instances[i], "cpu_data", <<>>)
         IN  \E j \in 1..Len(cpu_data) : ParsesTo(cpu_data[j].timestamp) = {}

\* the invocation's last collaborator call is the publish of the failure
\* notification, and it published no success notification
FailureNotified ==
    /\ traceR # <<>>
    /\ traceR[Len(traceR)].op = "sns.publish"
    /\ traceR[Len(traceR)].Subject = "CloudWatch Report Generation Failed"
    /\ Len(CallsOf(traceR, "sns.publish")) = 1

\* C5: in the report stage a missing bucket name or s3_key, a failed get, an
\* unparseable document, an unparseable date and a failed put each end the
\* invocation with statusCode 500 and (a topic being configured) a published
\* failure notification; a failed get is followed by no put; and when the
\* bucket name or the s3_key is missing no get and no put was issued at all.
C5_BatchFailuresGive500 ==
    R_Ended =>
      /\ (BucketMissing \/ KeyMissing \/ R_GetFailed \/ BadJson \/ BadDate \/ R_PutFailed)
           => /\ pcR = "done"
              /\ responseR.statusCode = 500
              /\ Truthy(env.SNS_TOPIC_ARN) => FailureNotified
      /\ (BucketMissing \/ KeyMissing)
           => /\ CallsOf(traceR, "s3.get_object") = <<>>
              /\ CallsOf(traceR, "s3.put_object") = <<>>
      /\ (R_GetFailed \/ BadJson \/ BadDate) => CallsOf(traceR, "s3.put_object") = <<>>

\* C5 witness: an invocation with a key but no bucket name in event or
\* environment ended with 500 after nothing but the failure publish
C5_Witness ==
    /\ pcR = "done"
    /\ BucketMissing /\ ~KeyMissing
    /\ responseR.statusCode = 500
    /\ Len(traceR) = 1
    /\ FailureNotified

\* the report was rendered in this invocation
Rendered == DOMAIN html # {}

C10_KeysFollowDocumentMonth ==
    /\ \A i \in 1..Len(traceE) :
         traceE[i].op = "s3.put_object"
           => traceE[i].Key = "data/" \o traceE[i].Body.value.month \o "/metrics.json"
    /\ \A k \in DOMAIN store \cap ExportKeys :
         k = "data/" \o store[k].Body.value.month \o "/metrics.json"
    /\ \A i \in 1..Len(traceR) :
         traceR[i].op = "s3.put_object"
           => /\ traceR[i].Key = "reports/" \o metrics_data.month \o "-report.html"
              /\ \A m \in 1..MaxMonth :
                   event.s3_key = "data/" \o MonthNames[m] \o "/metrics.json"
                     => traceR[i].Key = "reports/" \o MonthNames[m] \o "-report.html"

\* C10 witness: after the month turned during an export, the artifact written
\* in the second month sits under the first month's key, and the report made
\* from it is stored under the first month's report key
C10_Witness ==
    /\ pcR = "done"
    /\ responseR.statusCode = 200
    /\ clock = 2
    /\ \E i \in 1..Len(traceE) :
         /\ traceE[i].op = "s3.put_object" /\ traceE[i].ok
         /\ traceE[i].Body.value.export_timestamp.month = 2
         /\ traceE[i].Key = "data/2024-01/metrics.json"
    /\ event.s3_key = "data/2024-01/metrics.json"
    /\ report_key = "reports/2024-01-report.html"
    /\ report_key \in DOMAIN store

\* C11: the exporter is fire-and-forget towards the report stage.  An ended
\* exporter invocation whose put succeeded returned statusCode 200 whether
\* lambda_client.invoke succeeded or raised, the body's invocation_status
\* being "failed" exactly if it raised; its artifact is in the store as it was
\* put; and no step of the report stage (whether it runs, succeeds or fails)
\* changes anything of the exporter's invocation, its response included, or
\* any stored artifact.
C11_ExporterAnswer ==
    (E_Ended /\ E_PutOk) =>
      LET put     == CallsOf(traceE, "s3.put_object")[1]
          invokes == CallsOf(traceE, "lambda.invoke")
      IN  /\ responseE.statusCode = 200
          /\ Len(invokes) = 1
          /\ responseE.body.report_generator_invocation.invocation_status
               = IF invokes[1].ok THEN "success" ELSE "failed"
          /\ responseE.body.s3_key = put.Key
          /\ put.Key \in DOMAIN store
          /\ store[put.Key].Body = put.Body

C11_ReportStepKeepsExporter ==
    repVars' # repVars =>
      /\ UNCHANGED expVars
      /\ \A k \in DOMAIN store \cap ExportKeys :
           k \in DOMAIN store' /\ store'[k] = store[k]

\* C11 as one property: the exporter's answer above in every state, and every
\* step in which the report stage moves leaves the exporter's invocation and
\* the stored artifacts as they were
C11_FireAndForget == [](C11_ExporterAnswer) /\ [][C11_ReportStepKeepsExporter]_vars

\* C11 witness: the trigger raised and the exporter returned 200 with
\* invocation_status "failed"; the report stage, run on the artifact all the
\* same, ended with 500; the artifact is stored as it was put
C11_Witness ==
    /\ pcE = "done"
    /\ responseE.statusCode = 200
    /\ responseE.body.report_generator_invocation.invocation_status = "failed"
    /\ queue = <<>>
    /\ pcR = "done"
    /\ responseR.statusCode = 500
    /\ Get(event, "s3_key", None) = s3_key
    /\ R_PutFailed
    /\ store[s3_key].Body = CallsOf(traceE, "s3.put_object")[1].Body


\* C12: in the report stage with a topic configured, an ended invocation
\* attempted exactly one publish, as its last collaborator call: the success
\* notification exactly if it returned statusCode 200, the failure
\* notification exactly if it returned 500, and it returned one of the two.  At
\* every point of an invocation a success publish comes after a successful put
\* of the report, and a 200 response implies that the report was put and is in
\* the store under the returned key.
C12_OneNotificationPerInvocation ==
    Truthy(env.SNS_TOPIC_ARN) =>
      /\ \A i \in 1..Len(traceR) :
           (traceR[i].op = "sns.publish"
              /\ traceR[i].Subject = "CloudWatch Report Generated Successfully")
             => \E j \in 1..(i - 1) :
                  /\ traceR[j].op = "s3.put_object" /\ traceR[j].ok
                  /\ traceR[j].ContentType = "text/html"
      /\ Len(CallsOf(traceR, "sns.publish")) <= 1
      /\ R_Ended =>
           LET publishes == CallsOf(traceR, "sns.publish")
           IN  /\ Len(publishes) = 1
               /\ traceR[Len(traceR)] = publishes[1]
               /\ responseR.statusCode \in {200, 500}
               /\ publishes[1].Subject = "CloudWatch Report Generated Successfully"
                    <=> responseR.statusCode = 200
               /\ publishes[1].Subject = "CloudWatch Report Generation Failed"
                    <=> responseR.statusCode = 500
               /\ responseR.statusCode = 200
                    => /\ R_PutOk
                       /\ responseR.body.report_key \in DOMAIN store
                       /\ store[responseR.body.report_key].ContentType = "text/html"

\* C12 witness: an invocation put its report, attempted the success
\* notification, whose publish raised, and returned 200
C12_Witness ==
    /\ Truthy(env.SNS_TOPIC_ARN)
    /\ pcR = "done"
    /\ responseR.statusCode = 200
    /\ Len(traceR) = 3
    /\ traceR[2].op = "s3.put_object" /\ traceR[2].ok
    /\ traceR[3].op = "sns.publish" /\ ~traceR[3].ok
    /\ traceR[3].Subject = "CloudWatch Report Generated Successfully"


\* the sum of a column over the first n rows
RECURSIVE ColumnSum(_, _, _)
ColumnSum(rows, col, n) ==
    IF n = 0 THEN 0 ELSE ColumnSum(rows, col, n - 1) + rows[n][col]

\* C13: for every non-empty table the Executive Summary's overall average is
\* the mean of avg_cpu over all rows (shown rounded to 2 decimals), its peak is
\* the largest max_cpu of any row, its minimum the smallest min_cpu of any row,
\* and its total instances is the number of distinct instance_id values among
\* the rows, so an instance of the document without rows is not counted.
C13_OverallSummary ==
    (call.fn = "create_html_report" /\ call.df # <<>>) =>
      LET rows == call.df
          n    == Len(rows)
          es   == call.result.executive_summary
      IN  /\ call.result.sections[1] = "Executive Summary"
          /\ es.avg_cpu_overall.den > 0
          /\ es.avg_cpu_overall.num * n = ColumnSum(rows, "avg_cpu", n) * es.avg_cpu_overall.den
          /\ 2 * n * es.metrics.Overall_Average_CPU <= 2 * ColumnSum(rows, "avg_cpu", n) + n
          /\ 2 * n * es.metrics.Overall_Average_CPU >= 2 * ColumnSum(rows, "avg_cpu", n) - n
          /\ \E i \in 1..n : rows[i].max_cpu = es.max_cpu_overall
          /\ \A i \in 1..n : rows[i].max_cpu <= es.max_cpu_overall
          /\ es.metrics.Peak_CPU_Usage = es.max_cpu_overall
          /\ \E i \in 1..n : rows[i].min_cpu = es.min_cpu_overall
          /\ \A i \in 1..n : rows[i].min_cpu >= es.min_cpu_overall
          /\ es.metrics.Minimum_CPU_Usage = es.min_cpu_overall
          /\ es.total_instances = Cardinality({rows[i].instance_id : i \in 1..n})
          /\ es.metrics.Total_Instances = es.total_instances
          /\ es.total_instances <= Len(call.metrics_data.instances)

\* C13 witness: one row of 10.00 for i-1 and rows of 85.00 and 86.00 for i-2
\* give the overall average 181/3, shown as 60.33 (the mean of the two
\* per-instance means would be 47.75), peak 98.00, minimum 5.00, 2 instances
C13_Witness ==
    /\ call.fn = "create_html_report"
    /\ Len(call.df) = 3
    /\ call.df[1].instance_id = "i-1"
    /\ call.df[2].instance_id = "i-2"
    /\ call.result.executive_summary.avg_cpu_overall = [num |-> 18100, den |-> 3]
    /\ call.result.executive_summary.metrics =
         [Total_Instances |-> 2, Overall_Average_CPU |-> 6033,
          Peak_CPU_Usage |-> 9800, Minimum_CPU_Usage |-> 500]


\* the positions of the exporter's collaborator calls of one kind
E_Positions(op) == {i \in 1..Len(traceE) : traceE[i].op = op}

E_PublishPositions(subject) ==
    {i \in E_Positions("sns.publish") : traceE[i].Subject = subject}

\* C14: the steps of one exporter invocation are ordered.  The process-start
\* publish (made whenever a topic is configured) precedes every metric fetch;
\* there is at most one put, and it comes after the fetches of all monitored
\* instances; the export-success publish and the trigger of the report stage
\* come only after a successful put, and the trigger's payload is exactly the
\* bucket and key of that put with source "data_exporter".  An invocation
\* whose put failed ended with statusCode 500 and made no export-success
\* publish, no trigger and no other publish than the process-start one.
C14_ExporterStepOrder ==
    LET starts   == E_PublishPositions("CloudWatch Data Export Process Started")
        dones    == E_PublishPositions("CloudWatch Data Export Completed Successfully")
        fetches  == E_Positions("cloudwatch.get_metric_statistics")
        puts     == E_Positions("s3.put_object")
        triggers == E_Positions("lambda.invoke")
    IN  /\ (Truthy(env.SNS_TOPIC_ARN) /\ pcE \notin {"idle", "start_notification"})
             => starts = {1}
        /\ \A i \in starts, j \in fetches : i < j
        /\ Cardinality(puts) <= 1
        /\ \A p \in puts :
             /\ Cardinality({j \in fetches : j < p}) = Len(sample_instances)
             /\ \A j \in fetches : j < p
             /\ {traceE[j].InstanceId : j \in fetches}
                  = {sample_instances[k] : k \in 1..Len(sample_instances)}
        /\ \A i \in dones \cup triggers : \E p \in puts : p < i /\ traceE[p].ok
        /\ \A i \in dones, t \in triggers : i < t
        /\ \A t \in triggers, p \in puts :
             traceE[t].Payload = [bucket_name |-> traceE[p].Bucket,
                                  s3_key      |-> traceE[p].Key,
                                  source      |-> "data_exporter"]
        /\ (\E p \in puts : ~traceE[p].ok) =>
             /\ pcE = "done"
             /\ responseE.statusCode = 500
             /\ dones = {}
             /\ triggers = {}
             /\ E_Positions("sns.publish") = starts
        /\ (E_Ended /\ Truthy(env.SNS_TOPIC_ARN) /\ E_PutOk)
             => Cardinality(dones) = 1 /\ Cardinality(triggers) = 1

\* C14 witness: with a topic, an invocation made the process-start publish,
\* three fetches, a successful put, the export-success publish and the trigger
\* in that order, the trigger carrying the key just put
C14_Witness ==
    /\ pcE = "done"
    /\ Len(traceE) = 7
    /\ traceE[1].op = "sns.publish"
    /\ traceE[4].op = "cloudwatch.get_metric_statistics"
    /\ traceE[5].op = "s3.put_object" /\ traceE[5].ok
    /\ traceE[6].op = "sns.publish"
    /\ traceE[7].op = "lambda.invoke"
    /\ traceE[7].Payload.s3_key = traceE[5].Key
    /\ traceE[7].Payload.source = "data_exporter"
    /\ traceE[5].Key \in DOMAIN store


\* the rows of one instance, and the instance ids of a table
OwnRows(rows, id) == SelectSeq(rows, LAMBDA r : r.instance_id = id)

TableIds(rows) == {rows[i].instance_id : i \in 1..Len(rows)}

RECURSIVE DataPointsSum(_, _)
DataPointsSum(summary, n) ==
    IF n = 0 THEN 0 ELSE DataPointsSum(summary, n - 1) + summary[n].Data_Points

\* C15: for every non-empty table the Instance Summary and the Recommendations
\* each hold exactly one entry per distinct instance_id of the table and none
\* for any other id; an instance of the document whose entries have an error
\* or no points is in neither; the Data Points of the Instance Summary sum to
\* the number of rows; the Instance Summary's figures and each recommendation
\* are those of the instance's own rows (its own mean of avg_cpu and its own
\* largest max_cpu).
C15_OneEntryPerInstance ==
    (call.fn = "create_html_report" /\ call.df # <<>>) =>
      LET rows    == call.df
          summary == call.result.instance_summary
          recs    == call.result.recommendations
          doc     == call.metrics_data.instances
      IN  /\ Len(summary) = Cardinality(TableIds(rows))
          /\ {summary[k].instance_id : k \in 1..Len(summary)} = TableIds(rows)
          /\ Len(recs) = Cardinality(TableIds(rows))
          /\ {recs[k].instance_id : k \in 1..Len(recs)} = TableIds(rows)
          /\ \A i \in 1..Len(doc) :
               (\A j \in 1..Len(doc) :
                  doc[j].instance_id = doc[i].instance_id => doc[j].cpu_data = <<>>)
                 => /\ \A k \in 1..Len(summary) : summary[k].instance_id # doc[i].instance_id
                    /\ \A k \in 1..Len(recs) : recs[k].instance_id # doc[i].instance_id
          /\ DataPointsSum(summary, Len(summary)) = Len(rows)
          /\ \A k \in 1..Len(summary) :
               LET own == OwnRows(rows, summary[k].instance_id)
                   n   == Len(own)
               IN  /\ summary[k].Data_Points = n
                   /\ 2 * n * summary[k].Avg_CPU <= 2 * ColumnSum(own, "avg_cpu", n) + n
                   /\ 2 * n * summary[k].Avg_CPU >= 2 * ColumnSum(own, "avg_cpu", n) - n
                   /\ \E i \in 1..n : own[i].max_cpu = summary[k].Max_CPU
                   /\ \A i \in 1..n : own[i].max_cpu <= summary[k].Max_CPU
          /\ \A k \in 1..Len(recs) :
               LET own  == OwnRows(rows, recs[k].instance_id)
                   n    == Len(own)
                   peak == CHOOSE v \in {own[i].max_cpu : i \in 1..n} :
                             \A i \in 1..n : own[i].max_cpu <= v
               IN  recs[k].recommendation =
                     generate_recommendations(
                         [num |-> ColumnSum(own, "avg_cpu", n), den |-> n], peak)

\* C15 witness: i-2 first with rows of 85.00 and 86.00, i-1 second with one row
\* of 10.00, in a document: the Instance Summary lists i-1 then i-2 with 1 and
\* 2 data points, the Recommendations i-2 (high) then i-1 (low)
C15_Witness ==
    /\ call.fn = "create_html_report"
    /\ Len(call.df) = 3
    /\ Len(call.result.instance_summary) = 2
    /\ call.result.instance_summary[1].instance_id = "i-1"
    /\ call.result.instance_summary[1].Data_Points = 1
    /\ call.result.instance_summary[2].instance_id = "i-2"
    /\ call.result.instance_summary[2].Data_Points = 2
    /\ call.result.recommendations =
         <<[instance_id |-> "i-2", recommendation |-> MsgHigh],
           [instance_id |-> "i-1", recommendation |-> MsgLow]>>

\* the scenario of an instance with an error beside one with a point: the
\* table has the one row of i-1, and i-2 is in neither section
C15_ErrorInstanceLeftOut ==
    /\ call.fn = "create_html_report"
    /\ Len(call.metrics_data.instances) = 2
    /\ call.metrics_data.instances[1].instance_id = "i-1"
    /\ HasKey(call.metrics_data.instances[2], "error")
    /\ call.metrics_data.instances[2].instance_id = "i-2"
    /\ Len(call.df) = 1
    /\ Len(call.result.instance_summary) = 1
    /\ call.result.recommendations = <<[instance_id |-> "i-1", recommendation |-> MsgLow]>>


\* the invocation downloaded and parsed a document that has no month field
\* and flattens without error
MonthLess ==
    /\ R_GetOk
    /\ ~BadJson
    /\ ~HasKey(metrics_data, "month")
    /\ ~process_metrics_with_pandas(metrics_data).raised

\* C16: in the report stage a downloaded document without the month field
\* (and otherwise flattened without error) is rendered with the heading month
\* "Unknown Month" and never uploaded: the invocation issues no object-store
\* put, ends with statusCode 500 and, a topic being configured, the failure
\* notification; no object is ever stored under the placeholder's report key,
\* and no stored report has the placeholder as its month.
C16_NoMonthNeverUploaded ==
    /\ (MonthLess /\ pcR \in {"upload", "except", "done"})
         => Rendered /\ html.month = "Unknown Month"
    /\ MonthLess =>
         /\ CallsOf(traceR, "s3.put_object") = <<>>
         /\ pcR # "notify"
         /\ report_key = None
    /\ (MonthLess /\ R_Ended) =>
         /\ pcR = "done"
         /\ responseR.statusCode = 500
         /\ Truthy(env.SNS_TOPIC_ARN) => FailureNotified
    /\ report_key_for("Unknown Month") \notin DOMAIN store
    /\ \A k \in DOMAIN store :
         store[k].ContentType = "text/html" => store[k].Body.html.month # "Unknown Month"

\* C16 witness: the document data/manual/no-month.json was downloaded and
\* rendered under "Unknown Month" with its Executive Summary; the invocation
\* ended with 500 after the get and the failure publish, and no put
C16_Witness ==
    /\ pcR = "done"
    /\ Get(event, "s3_key", None) = "data/manual/no-month.json"
    /\ MonthLess
    /\ html.month = "Unknown Month"
    /\ html.sections[1] = "Executive Summary"
    /\ responseR.statusCode = 500
    /\ Len(traceR) = 2
    /\ traceR[1].op = "s3.get_object" /\ traceR[1].ok
    /\ FailureNotified

====
